---------------------------- MODULE Spec2Model ----------------------------
(***************************************************************************)
(* A model of mirror-caddy.py: the recursive crawl of a Caddy file         *)
(* server's JSON listings (enumerate_files / _fetch_dir), the bounded      *)
(* download pipeline (async_main._download_with_limit / download_file),    *)
(* the sidecar metadata store (read_metadata / save_metadata) and the      *)
(* process exit status (async_main / main).                                *)
(*                                                                         *)
(* Text is modelled as a sequence of tokens.  A path string is a sequence  *)
(* whose items are either the separator "/" or one whole path segment (a   *)
(* string); a sidecar text is a sequence over the tokens "etag",           *)
(* "last_modified", "=", "NL" (the newline save_metadata writes), "LS"     *)
(* (any other line boundary str.splitlines honours, such as U+0085),       *)
(* "null" (the four letters n,u,l,l) and "v" (any other text).             *)
(***************************************************************************)
EXTENDS Naturals, Integers, Sequences, FiniteSets, TLC

(***************************************************************************)
(* Bounds of the model.                                                    *)
(***************************************************************************)
MaxK == 2          \* the concurrency limit K ranges over 1..MaxK
MaxRuns == 2       \* the program is run at most this many times in a row
MaxLen == 3        \* validator values of the round-trip harness: length <= MaxLen

Last(s) == s[Len(s)]
Front(s) == SubSeq(s, 1, Len(s) - 1)

RECURSIVE SeqsUpTo(_, _)
SeqsUpTo(S, n) ==
    IF n = 0 THEN {<<>>}
    ELSE LET shorter == SeqsUpTo(S, n - 1)
         IN  shorter \cup {Append(s, c) : s \in {t \in shorter : Len(t) = n - 1}, c \in S}

(***************************************************************************)
(* pathlib, as download_file uses it.                                      *)
(***************************************************************************)
\* str.rstrip("/")
RECURSIVE RStripSlash(_)
RStripSlash(s) ==
    IF s # <<>> /\ Last(s) = "/" THEN RStripSlash(Front(s)) ELSE s

\* f"{s}{suffix}" for a suffix holding no "/": it extends the last segment
StrAppend(s, suffix) ==
    IF s = <<>> \/ Last(s) = "/"
    THEN Append(s, suffix)
    ELSE [s EXCEPT ![Len(s)] = @ \o suffix]

\* PurePosixPath(s): absolute iff s starts with "/"; empty and "." segments
\* are dropped, ".." segments are kept
ParsePath(s) ==
    [abs  |-> s # <<>> /\ s[1] = "/",
     segs |-> SelectSeq(s, LAMBDA x : x \notin {"/", "."})]

\* base / s : an absolute right operand replaces the base
JoinPath(base, s) ==
    IF ParsePath(s).abs
    THEN ParsePath(s)
    ELSE [abs |-> base.abs, segs |-> base.segs \o ParsePath(s).segs]

\* p.with_name(p.name + suffix)
WithNameSuffix(p, suffix) ==
    [p EXCEPT !.segs = [@ EXCEPT ![Len(@)] = @ \o suffix]]

\* the file the operating system reaches through p: each ".." leaves the
\* directory reached so far (a leading ".." of a relative path stays)
RECURSIVE ResolveSegs(_, _)
ResolveSegs(done, rest) ==
    IF rest = <<>> THEN done
    ELSE IF Head(rest) = ".."
         THEN IF done # <<>> /\ Last(done) # ".."
              THEN ResolveSegs(Front(done), Tail(rest))
              ELSE ResolveSegs(Append(done, ".."), Tail(rest))
         ELSE ResolveSegs(Append(done, Head(rest)), Tail(rest))

Resolve(p) ==
    [abs |-> p.abs, segs |-> ResolveSegs(<<>>, p.segs)]

\* download_dir = Path(args.download_dir), metadata_dir = download_dir / ".metadata"
DownloadDir == ParsePath(<<"dl">>)
MetadataDir == JoinPath(DownloadDir, <<".metadata">>)

LocalFile(fp) == Resolve(JoinPath(DownloadDir, fp))
TempFile(fp) == Resolve(WithNameSuffix(JoinPath(DownloadDir, fp), ".tmp"))
MetaFile(fp) == Resolve(JoinPath(MetadataDir, StrAppend(fp, ".meta")))

\* loc lies strictly below the destination root
UnderRoot(loc) ==
    /\ loc.abs = DownloadDir.abs
    /\ Len(loc.segs) > Len(DownloadDir.segs)
    /\ SubSeq(loc.segs, 1, Len(DownloadDir.segs)) = DownloadDir.segs

(***************************************************************************)
(* The metadata store.                                                     *)
(***************************************************************************)
LineBreaks == {"NL", "LS"}
ValChar == {"v", "=", "null", "LS"}

\* f"etag={etag}\nlast_modified={last_modified}\n"
SaveMetadataText(etag, last_modified) ==
    <<"etag", "=">> \o etag \o <<"NL">>
        \o <<"last_modified", "=">> \o last_modified \o <<"NL">>

\* str.splitlines(): the text is cut at every line boundary; a text that
\* ends with a line boundary has no empty last line
RECURSIVE SplitLines(_, _)
SplitLines(cur, rest) ==
    IF rest = <<>>
    THEN IF cur = <<>> THEN <<>> ELSE <<cur>>
    ELSE IF Head(rest) \in LineBreaks
         THEN <<cur>> \o SplitLines(<<>>, Tail(rest))
         ELSE SplitLines(Append(cur, Head(rest)), Tail(rest))

\* the index of the first "=" of line, 0 if there is none
RECURSIVE FirstEqFrom(_, _)
FirstEqFrom(line, i) ==
    IF i > Len(line) THEN 0
    ELSE IF line[i] = "=" THEN i ELSE FirstEqFrom(line, i + 1)

\* the index of the last "=" of line, 0 if there is none
RECURSIVE LastEqFrom(_, _)
LastEqFrom(line, i) ==
    IF i = 0 THEN 0
    ELSE IF line[i] = "=" THEN i ELSE LastEqFrom(line, i - 1)

SepIndexLast(line) == LastEqFrom(line, Len(line))

\* where line.partition("=") cuts
SepIndex(line) == FirstEqFrom(line, 1)

\* k, _, v = line.partition("=")
PartitionKey(line) ==
    IF SepIndex(line) = 0 THEN line ELSE SubSeq(line, 1, SepIndex(line) - 1)

PartitionValue(line) ==
    IF SepIndex(line) = 0 THEN <<>> ELSE SubSeq(line, SepIndex(line) + 1, Len(line))

\* if v and v != "null": meta[k] = v   (a later line overrides an earlier one)
RECURSIVE MetaOfLines(_, _)
MetaOfLines(meta, lines) ==
    IF lines = <<>> THEN meta
    ELSE LET k == PartitionKey(Head(lines))
             v == PartitionValue(Head(lines))
         IN  IF v # <<>> /\ v # <<"null">>
             THEN MetaOfLines((k :> v) @@ meta, Tail(lines))
             ELSE MetaOfLines(meta, Tail(lines))

EmptyMeta == [k \in {} |-> <<>>]

CounterAddMut(value, n) == value

\* Counter.add(n): self._n += n; return self._n
CounterAdd(value, n) == value + n

(***************************************************************************)
(* Local storage: a function from the locations that hold a file to what   *)
(* they hold, a response body (of one file node, complete or not) or text. *)
(***************************************************************************)
DataFile(node, complete) ==
    [kind |-> "data", node |-> node, complete |-> complete, text |-> <<>>]
TextFile(text) ==
    [kind |-> "text", node |-> 0, complete |-> TRUE, text |-> text]

WriteFile(f, loc, c) ==
    [l \in DOMAIN f \cup {loc} |-> IF l = loc THEN c ELSE f[l]]

\* Path.unlink(missing_ok=True)
Unlink(f, loc) == [l \in DOMAIN f \ {loc} |-> f[l]]

\* Path.replace(target): one atomic rename
ReplaceFile(f, src, dst) ==
    [l \in (DOMAIN f \ {src}) \cup {dst} |-> IF l = dst THEN f[src] ELSE f[l]]

\* path.parent.mkdir(...); path.write_text(f"etag=...")
SaveMetadata(f, loc, etag, last_modified) ==
    WriteFile(f, loc, TextFile(SaveMetadataText(etag, last_modified)))

\* read_metadata(path): {} unless path.exists(), else the lines of its text
ReadMetadata(f, loc) ==
    IF loc \notin DOMAIN f THEN EmptyMeta
    ELSE MetaOfLines(EmptyMeta, SplitLines(<<>>, f[loc].text))

\* meta.get(key): the empty text stands for None
MetaGet(meta, key) ==
    IF <<key>> \in DOMAIN meta THEN meta[<<key>>] ELSE <<>>

TruthyMut(v) == TRUE

\* if meta.get(key): neither None nor the empty string
Truthy(v) == v # <<>>

\* the record key each conditional header is built from
HeaderKey == [h \in {"If-None-Match", "If-Modified-Since"} |->
                 IF h = "If-None-Match" THEN "etag" ELSE "last_modified"]

\* headers = {}; if meta.get("etag"): headers["If-None-Match"] = meta["etag"];
\* if meta.get("last_modified"): headers["If-Modified-Since"] = ...
Headers(meta) ==
    [h \in {x \in DOMAIN HeaderKey : Truthy(MetaGet(meta, HeaderKey[x]))}
        |-> MetaGet(meta, HeaderKey[h])]

\* the value a request sends for header h, the empty text if it sends none
HeaderGet(headers, h) == IF h \in DOMAIN headers THEN headers[h] ELSE <<>>


(***************************************************************************)
(* The remote tree.  Directory nodes are 0 (the base URL), 1 (sub/),       *)
(* 2 (other/) and 3 (other/empty/); file nodes are 11, 12 and 13.  A URL   *)
(* is modelled by the remote node it addresses.  The names of two file     *)
(* entries are inputs.                                                     *)
(***************************************************************************)
Dirs == {0, 1, 2, 3}
BaseDir == 0

\* the names <<n1, n2>> of the file entries 11 and 13: plain names, a name
\* listed twice, a name that ends in ".tmp", names that hold ".." segments
\* or start with "/"
NamePairs ==
    { << <<"a">>, <<"c">> >>,
      << <<"a">>, <<"b">> >>,
      << <<"a">>, <<"b.tmp">> >>,
      << <<"a">>, <<"..", "/", "..", "/", "a">> >>,
      << <<"/", "a">>, <<"c">> >> }

Entry(n, d, u) == [name |-> n, is_dir |-> d, url |-> u]

Tree(n1, n2) ==
    [d \in Dirs |->
        CASE d = 0 -> << Entry(n1, FALSE, 11),
                         Entry(<<"sub", "/">>, TRUE, 1),
                         Entry(<<"other", "/">>, TRUE, 2) >>
          [] d = 1 -> << Entry(<<"..", "/">>, TRUE, 0),
                         Entry(<<"b">>, FALSE, 12),
                         Entry(n2, FALSE, 13) >>
          [] d = 2 -> << Entry(<<"empty", "/">>, TRUE, 3) >>
          [] OTHER -> << >> ]

Trees == {Tree(np[1], np[2]) : np \in NamePairs}

(***************************************************************************)
(* _fetch_dir: the parse of one listing.                                   *)
(***************************************************************************)
\* if name in (".", ".."): continue
Discarded(name) == name \in {<<".">>, <<"..">>}

\* files.append((full_path, full_url)) for every entry that is no directory
RECURSIVE FetchDirFiles(_, _)
FetchDirFiles(entries, prefix) ==
    IF entries = <<>> THEN <<>>
    ELSE LET e == Head(entries)
             name == RStripSlash(e.name)
             rest == FetchDirFiles(Tail(entries), prefix)
         IN  IF Discarded(name) \/ e.is_dir THEN rest
             ELSE <<[path |-> prefix \o name, url |-> e.url]>> \o rest

\* subdirs.append((full_url, f"{full_path}/")) for every directory entry
RECURSIVE FetchDirSubdirs(_, _)
FetchDirSubdirs(entries, prefix) ==
    IF entries = <<>> THEN <<>>
    ELSE LET e == Head(entries)
             name == RStripSlash(e.name)
             rest == FetchDirSubdirs(Tail(entries), prefix)
         IN  IF Discarded(name) \/ ~e.is_dir THEN rest
             ELSE <<[url |-> e.url, prefix |-> (prefix \o name) \o <<"/">>]>> \o rest

Range(s) == {s[i] : i \in DOMAIN s}

VARIABLES
    ms,          \* the round-trip harness of the metadata store
    K,           \* max_concurrent
    remote,      \* the remote tree: the listing of every directory node
    run,         \* how many times the program has been started
    status,      \* "running", or the exit status: "exit0", "exit1", "exit130"
    phase,       \* "crawl", "download" or "done"
    ptask,       \* each directory's _process call
    pprefix,     \* the prefix each _process call was given
    pkids,       \* the directories each _process call gathers
    listing,     \* how each directory's listing request ended
    fetchCount,  \* the listing requests issued per directory
    allFiles,    \* all_files, later files
    fileCounter, \* file_counter
    total,       \* total
    pc,          \* each download task's position
    req,         \* the conditional headers of each task's GET
    rsp,         \* the validators of each task's 2xx response
    sem,         \* the free slots of the semaphore
    progress,    \* progress
    tally,       \* the printed tally <<downloaded, skipped, failed>>
    fs,          \* local storage: the files that exist, by location
    touched,     \* the locations each download task wrote, replaced or deleted
    prev         \* what the previous run left

vars == <<ms, K, remote, run, status, phase, ptask, pprefix, pkids, listing,
          fetchCount, allFiles, fileCounter, total, pc, req, rsp, sem,
          progress, tally, fs, touched, prev>>

crawlVars == <<ptask, pprefix, pkids, listing, fetchCount, allFiles, fileCounter>>
dlVars == <<total, pc, req, rsp, sem, progress, tally>>
envVars == <<ms, K, remote, run, prev>>


(***************************************************************************)
(* The state a run starts in: async_main up to its first suspension, the   *)
(* listing request for the base URL.                                       *)
(***************************************************************************)
FreshPtask == [d \in Dirs |-> IF d = BaseDir THEN "fetching" ELSE "idle"]
FreshPrefix == [d \in Dirs |-> <<>>]
FreshKids == [d \in Dirs |-> {}]
FreshListing == [d \in Dirs |-> "none"]
FreshFetchCount == [d \in Dirs |-> IF d = BaseDir THEN 1 ELSE 0]

FileNodes == {11, 12, 13}
\* the download tasks gather can create: one per file of the remote tree
Tasks == 1..Cardinality(FileNodes)
NoValidators == [etag |-> <<>>, last_modified |-> <<>>]
NoHeaders == [h \in {} |-> <<>>]
MsIdle == [pc |-> "idle", path |-> <<>>, etag |-> <<>>, last_modified |-> <<>>,
           loaded |-> EmptyMeta]

Init ==
    /\ ms = MsIdle
    /\ K \in 1..MaxK
    /\ remote \in Trees
    /\ run = 1
    /\ status = "running"
    /\ phase = "crawl"
    /\ ptask = FreshPtask
    /\ pprefix = FreshPrefix
    /\ pkids = FreshKids
    /\ listing = FreshListing
    /\ fetchCount = FreshFetchCount
    /\ allFiles = <<>>
    /\ fileCounter = 0
    /\ total = 0
    /\ pc = <<>>
    /\ req = <<>>
    /\ rsp = <<>>
    /\ sem = 0
    /\ progress = 0
    /\ tally = <<>>
    /\ fs = [l \in {} |-> TextFile(<<>>)]
    /\ touched = <<>>
    /\ prev = [good |-> FALSE, fs |-> [l \in {} |-> TextFile(<<>>)]]

(***************************************************************************)
(* enumerate_files: one _process call per directory.  A call is "spawned"  *)
(* (its task is created by the parent's gather), "fetching" (session.get   *)
(* is called and waits for a connection of the session's connector),       *)
(* "receiving" (the request is on a connection), "waiting" (on the gather  *)
(* of its children), "returned", "raised" or "cancelled".                  *)
(***************************************************************************)
Crawling == status = "running"

\* the listing requests that hold a connection
OnWire == {d \in Dirs : ptask[d] = "receiving"}

ConnFreeMut == TRUE

\* TCPConnector(limit=max_concurrent, limit_per_host=max_concurrent): a
\* connection is to be had while fewer than max_concurrent are in use; a
\* limit of 0 is no limit
ConnFree == K = 0 \/ Cardinality(OnWire) < K

\* the connector hands the request a connection and the request is sent
Connect(d) ==
    /\ Crawling
    /\ ptask[d] = "fetching"
    /\ ConnFree
    /\ ptask' = [ptask EXCEPT ![d] = "receiving"]
    /\ UNCHANGED <<pprefix, pkids, listing, fetchCount, allFiles, fileCounter>>
    /\ UNCHANGED <<envVars, dlVars, status, phase, fs, touched>>

\* a spawned _process task runs up to session.get in _fetch_dir
StartFetch(d) ==
    /\ Crawling
    /\ ptask[d] = "spawned"
    /\ ptask' = [ptask EXCEPT ![d] = "fetching"]
    /\ fetchCount' = [fetchCount EXCEPT ![d] = @ + 1]
    /\ UNCHANGED <<pprefix, pkids, listing, allFiles, fileCounter>>
    /\ UNCHANGED <<envVars, dlVars, status, phase, fs, touched>>

\* the listing arrives as a JSON array of entries: _fetch_dir returns
\* (files, subdirs); _process merges the files and gathers the subdirectories
ListingOk(d) ==
    /\ Crawling
    /\ ptask[d] = "receiving"
    /\ LET found == FetchDirFiles(remote[d], pprefix[d])
           subdirs == FetchDirSubdirs(remote[d], pprefix[d])
           kids == {sd.url : sd \in Range(subdirs)}
           prefixOf(c) == (CHOOSE sd \in Range(subdirs) : sd.url = c).prefix
       IN  /\ allFiles' = allFiles \o found
           /\ fileCounter' = CounterAdd(fileCounter, Len(found))
           /\ listing' = [listing EXCEPT ![d] = "ok"]
           /\ pkids' = [pkids EXCEPT ![d] = kids]
           /\ pprefix' = [c \in Dirs |-> IF c \in kids THEN prefixOf(c) ELSE pprefix[c]]
           /\ ptask' = [c \in Dirs |->
                          IF c \in kids THEN "spawned"
                          ELSE IF c = d
                               THEN (IF subdirs = <<>> THEN "returned" ELSE "waiting")
                               ELSE ptask[c]]
    /\ UNCHANGED fetchCount
    /\ UNCHANGED <<envVars, dlVars, status, phase, fs, touched>>

\* a transport error or a timeout (with or without a connection), an error
\* status or a body that is no JSON: the except clause of _fetch_dir returns
\* ([], [])
ListingFails(d) ==
    /\ Crawling
    /\ ptask[d] \in {"fetching", "receiving"}
    /\ \E kind \in {"transport", "status", "badjson"} :
          listing' = [listing EXCEPT ![d] = "failed"]
    /\ ptask' = [ptask EXCEPT ![d] = "returned"]
    /\ UNCHANGED <<pprefix, pkids, fetchCount, allFiles, fileCounter>>
    /\ UNCHANGED <<envVars, dlVars, status, phase, fs, touched>>

\* the body is JSON but no sequence of entry objects (null, a number, an
\* array of strings, a name that is no string): the loop over entries is
\* outside the try, so the exception leaves _fetch_dir and _process
ListingMalformed(d) ==
    /\ Crawling
    /\ ptask[d] = "receiving"
    /\ listing' = [listing EXCEPT ![d] = "raised"]
    /\ ptask' = [ptask EXCEPT ![d] = "raised"]
    /\ UNCHANGED <<pprefix, pkids, fetchCount, allFiles, fileCounter>>
    /\ UNCHANGED <<envVars, dlVars, status, phase, fs, touched>>

ChildrenDoneMut(d) == TRUE

\* asyncio.gather returns once every child has returned
ChildrenDone(d) == \A c \in pkids[d] : ptask[c] = "returned"

GatherDone(d) ==
    /\ Crawling
    /\ ptask[d] = "waiting"
    /\ ChildrenDone(d)
    /\ ptask' = [ptask EXCEPT ![d] = "returned"]
    /\ UNCHANGED <<pprefix, pkids, listing, fetchCount, allFiles, fileCounter>>
    /\ UNCHANGED <<envVars, dlVars, status, phase, fs, touched>>

\* asyncio.gather passes the first exception of a child on at once; the
\* other children are not cancelled and keep running
GatherRaises(d) ==
    /\ Crawling
    /\ ptask[d] = "waiting"
    /\ \E c \in pkids[d] : ptask[c] = "raised"
    /\ ptask' = [ptask EXCEPT ![d] = "raised"]
    /\ UNCHANGED <<pprefix, pkids, listing, fetchCount, allFiles, fileCounter>>
    /\ UNCHANGED <<envVars, dlVars, status, phase, fs, touched>>

Unfinished == {"spawned", "fetching", "receiving", "waiting"}
CancelCrawl == [d \in Dirs |-> IF ptask[d] \in Unfinished THEN "cancelled" ELSE ptask[d]]

CrawlDoneMut == TRUE

\* await enumerate_files(...) returns when the _process call of the base
\* directory has returned
CrawlDone == ptask[BaseDir] = "returned"

\* files = await enumerate_files(...); total = len(files); no files: return.
\* Otherwise the semaphore is made and gather creates one task per file.
\* The record of how the listings ended is dropped with the crawl.
CrawlReturns ==
    /\ status = "running"
    /\ phase = "crawl"
    /\ CrawlDone
    /\ total' = Len(allFiles)
    /\ IF Len(allFiles) = 0
       THEN /\ status' = "exit0"
            /\ phase' = "done"
            /\ UNCHANGED <<pc, req, rsp, sem, touched>>
       ELSE /\ status' = status
            /\ phase' = "download"
            /\ pc' = [i \in 1..Len(allFiles) |-> "gate"]
            /\ req' = [i \in 1..Len(allFiles) |-> NoHeaders]
            /\ rsp' = [i \in 1..Len(allFiles) |-> NoValidators]
            /\ sem' = K
            /\ touched' = [i \in 1..Len(allFiles) |-> {}]
    /\ listing' = FreshListing
    /\ fetchCount' = FreshFetchCount
    /\ UNCHANGED <<ptask, pprefix, pkids, allFiles, fileCounter, progress, tally>>
    /\ UNCHANGED <<envVars, fs>>

\* the exception of the base directory's _process leaves enumerate_files and
\* async_main; asyncio.run cancels what still runs and the interpreter ends
\* with status 1
CrawlRaises ==
    /\ status = "running"
    /\ phase = "crawl"
    /\ ptask[BaseDir] = "raised"
    /\ status' = "exit1"
    /\ phase' = "done"
    /\ ptask' = CancelCrawl
    /\ UNCHANGED <<pprefix, pkids, listing, fetchCount, allFiles, fileCounter>>
    /\ UNCHANGED <<envVars, dlVars, fs, touched>>

(***************************************************************************)
(* download_file under _download_with_limit.  A task is at "gate" (waiting *)
(* for the semaphore), "sent" (its GET is issued), "reading" (a 2xx status *)
(* and headers are in, resp.read() is awaited), then inside the            *)
(* synchronous section that stores the body: "tmp_partial" (write_bytes    *)
(* has begun), "tmp_full", "replaced", "meta_trunc" (write_text has        *)
(* truncated the sidecar); it ends "downloaded", "skipped", "failed",      *)
(* "raised" (an exception left download_file) or "cancelled".              *)
(***************************************************************************)
Outcomes == {"downloaded", "skipped", "failed"}
SyncStates == {"tmp_partial", "tmp_full", "replaced", "meta_trunc"}
InFlightStates == {"sent", "reading"} \cup SyncStates

\* The remote files do not change.  The server sends file 11 with both
\* validators, file 12 without Last-Modified and file 13 without ETag.
ServerValidators(node) ==
    CASE node = 11 -> [etag |-> <<"e11">>, last_modified |-> <<"d11">>]
      [] node = 12 -> [etag |-> <<"e12">>, last_modified |-> <<>>]
      [] OTHER     -> [etag |-> <<>>, last_modified |-> <<"d13">>]

Downloading == status = "running" /\ phase = "download"

\* single-threaded cooperative scheduling: task i can be resumed only while
\* no other task is inside its synchronous section
LoopFree(i) == \A j \in DOMAIN pc : j # i => pc[j] \notin SyncStates

SemFreeMut == TRUE

\* async with sem: a slot is free
SemFree == sem > 0

Touch(i, locs) == [touched EXCEPT ![i] = @ \cup (locs \cap DOMAIN fs)]

\* the request presents a validator the server sends with this file: the
\* server answers 304 to such a request and 2xx to any other
Matches(i) ==
    LET is == ServerValidators(allFiles[i].url)
    IN  \/ HeaderGet(req[i], "If-None-Match") # <<>>
             /\ HeaderGet(req[i], "If-None-Match") = is.etag
        \/ HeaderGet(req[i], "If-Modified-Since") # <<>>
             /\ HeaderGet(req[i], "If-Modified-Since") = is.last_modified

\* the semaphore is acquired, the parent directory made, the sidecar read,
\* the conditional headers built and the GET issued
Admit(i) ==
    /\ Downloading
    /\ i \in DOMAIN pc
    /\ pc[i] = "gate"
    /\ LoopFree(i)
    /\ SemFree
    /\ sem' = sem - 1
    /\ req' = [req EXCEPT ![i] = Headers(ReadMetadata(fs, MetaFile(allFiles[i].path)))]
    /\ pc' = [pc EXCEPT ![i] = "sent"]
    /\ UNCHANGED <<total, rsp, progress, tally>>
    /\ UNCHANGED <<envVars, crawlVars, status, phase, fs, touched>>

\* local_file.parent.mkdir or read_metadata raises: both stand before the
\* try, so the exception leaves download_file and releases the semaphore
AdmitRaises(i) ==
    /\ Downloading
    /\ i \in DOMAIN pc
    /\ pc[i] = "gate"
    /\ LoopFree(i)
    /\ SemFree
    /\ \E fault \in {"mkdir", "sidecar"} : pc' = [pc EXCEPT ![i] = "raised"]
    /\ UNCHANGED <<total, req, rsp, sem, progress, tally>>
    /\ UNCHANGED <<envVars, crawlVars, status, phase, fs, touched>>

\* status 304: the temporary file is unlinked, the outcome is "skipped"
Respond304(i) ==
    /\ Downloading
    /\ i \in DOMAIN pc
    /\ pc[i] = "sent"
    /\ LoopFree(i)
    /\ Matches(i)
    /\ fs' = Unlink(fs, TempFile(allFiles[i].path))
    /\ touched' = Touch(i, {TempFile(allFiles[i].path)})
    /\ progress' = CounterAdd(progress, 1)
    /\ pc' = [pc EXCEPT ![i] = "skipped"]
    /\ req' = [req EXCEPT ![i] = NoHeaders]
    /\ sem' = sem + 1
    /\ UNCHANGED <<total, rsp, tally>>
    /\ UNCHANGED <<envVars, crawlVars, status, phase>>

\* the except clause: the temporary file is unlinked, the outcome is "failed"
ExceptFailed(i) ==
    /\ fs' = Unlink(fs, TempFile(allFiles[i].path))
    /\ touched' = Touch(i, {TempFile(allFiles[i].path)})
    /\ progress' = CounterAdd(progress, 1)
    /\ pc' = [pc EXCEPT ![i] = "failed"]
    /\ req' = [req EXCEPT ![i] = NoHeaders]
    /\ rsp' = [rsp EXCEPT ![i] = NoValidators]
    /\ sem' = sem + 1
    /\ UNCHANGED <<total, tally>>
    /\ UNCHANGED <<envVars, crawlVars, status, phase>>

\* session.get raises (transport error, timeout) or raise_for_status does
RespondError(i) ==
    /\ Downloading
    /\ i \in DOMAIN pc
    /\ pc[i] = "sent"
    /\ LoopFree(i)
    /\ \E kind \in {"transport", "status"} : ExceptFailed(i)

\* a 2xx status with its ETag and Last-Modified headers (each possibly empty)
Respond200(i) ==
    /\ Downloading
    /\ i \in DOMAIN pc
    /\ pc[i] = "sent"
    /\ LoopFree(i)
    /\ ~Matches(i)
    /\ rsp' = [rsp EXCEPT ![i] = ServerValidators(allFiles[i].url)]
    /\ pc' = [pc EXCEPT ![i] = "reading"]
    /\ UNCHANGED <<total, req, sem, progress, tally>>
    /\ UNCHANGED <<envVars, crawlVars, status, phase, fs, touched>>

\* resp.read() raises
ReadFails(i) ==
    /\ Downloading
    /\ i \in DOMAIN pc
    /\ pc[i] = "reading"
    /\ LoopFree(i)
    /\ ExceptFailed(i)

\* the body is in; temp_file.write_bytes(content) has opened the temporary
\* file and written part of the body
WriteTempPartial(i) ==
    /\ Downloading
    /\ i \in DOMAIN pc
    /\ pc[i] = "reading"
    /\ LoopFree(i)
    /\ fs' = WriteFile(fs, TempFile(allFiles[i].path), DataFile(allFiles[i].url, FALSE))
    /\ touched' = [touched EXCEPT ![i] = @ \cup {TempFile(allFiles[i].path)}]
    /\ pc' = [pc EXCEPT ![i] = "tmp_partial"]
    /\ UNCHANGED <<total, req, rsp, sem, progress, tally>>
    /\ UNCHANGED <<envVars, crawlVars, status, phase>>

\* write_bytes has written the whole body
WriteTempFull(i) ==
    /\ Downloading
    /\ i \in DOMAIN pc
    /\ pc[i] = "tmp_partial"
    /\ fs' = WriteFile(fs, TempFile(allFiles[i].path), DataFile(allFiles[i].url, TRUE))
    /\ pc' = [pc EXCEPT ![i] = "tmp_full"]
    /\ UNCHANGED <<total, req, rsp, sem, progress, tally>>
    /\ UNCHANGED <<envVars, crawlVars, status, phase, touched>>

\* temp_file.replace(local_file)
Replace(i) ==
    /\ Downloading
    /\ i \in DOMAIN pc
    /\ pc[i] = "tmp_full"
    /\ fs' = ReplaceFile(fs, TempFile(allFiles[i].path), LocalFile(allFiles[i].path))
    /\ touched' = [touched EXCEPT ![i] = @ \cup {LocalFile(allFiles[i].path)}]
    /\ pc' = [pc EXCEPT ![i] = "replaced"]
    /\ UNCHANGED <<total, req, rsp, sem, progress, tally>>
    /\ UNCHANGED <<envVars, crawlVars, status, phase>>

\* save_metadata: write_text has opened (and so truncated) the sidecar
SaveTruncate(i) ==
    /\ Downloading
    /\ i \in DOMAIN pc
    /\ pc[i] = "replaced"
    /\ fs' = WriteFile(fs, MetaFile(allFiles[i].path), TextFile(<<>>))
    /\ touched' = [touched EXCEPT ![i] = @ \cup {MetaFile(allFiles[i].path)}]
    /\ pc' = [pc EXCEPT ![i] = "meta_trunc"]
    /\ UNCHANGED <<total, req, rsp, sem, progress, tally>>
    /\ UNCHANGED <<envVars, crawlVars, status, phase>>

\* write_text has written the record; progress.add(); return "downloaded"
SaveWrite(i) ==
    /\ Downloading
    /\ i \in DOMAIN pc
    /\ pc[i] = "meta_trunc"
    /\ fs' = SaveMetadata(fs, MetaFile(allFiles[i].path), rsp[i].etag, rsp[i].last_modified)
    /\ progress' = CounterAdd(progress, 1)
    /\ pc' = [pc EXCEPT ![i] = "downloaded"]
    /\ req' = [req EXCEPT ![i] = NoHeaders]
    /\ rsp' = [rsp EXCEPT ![i] = NoValidators]
    /\ sem' = sem + 1
    /\ UNCHANGED <<total, tally>>
    /\ UNCHANGED <<envVars, crawlVars, status, phase, touched>>

\* write_bytes, replace or save_metadata raises (a failure of local storage)
LocalWriteFails(i) ==
    /\ Downloading
    /\ i \in DOMAIN pc
    /\ pc[i] \in SyncStates
    /\ ExceptFailed(i)

Count(o) == Cardinality({i \in DOMAIN pc : pc[i] = o})

\* gather returns the results; the tally is printed; sys.exit(1) if failed > 0
GatherReturns ==
    /\ Downloading
    /\ \A i \in DOMAIN pc : pc[i] \in Outcomes
    /\ tally' = <<Count("downloaded"), Count("skipped"), Count("failed")>>
    /\ status' = IF Count("failed") > 0 THEN "exit1" ELSE "exit0"
    /\ phase' = "done"
    /\ UNCHANGED <<total, pc, req, rsp, sem, progress>>
    /\ UNCHANGED <<envVars, crawlVars, fs, touched>>

CancelTasks ==
    [i \in DOMAIN pc |-> IF pc[i] \in Outcomes \cup {"raised"} THEN pc[i] ELSE "cancelled"]

\* gather passes on the exception of a task: it leaves async_main, asyncio.run
\* cancels the tasks that still run, no tally is printed and the interpreter
\* ends with status 1
PipelineRaises ==
    /\ Downloading
    /\ \E i \in DOMAIN pc : pc[i] = "raised"
    /\ LoopFree(0)
    /\ status' = "exit1"
    /\ phase' = "done"
    /\ pc' = CancelTasks
    /\ req' = [i \in DOMAIN req |-> NoHeaders]
    /\ rsp' = [i \in DOMAIN rsp |-> NoValidators]
    /\ UNCHANGED <<total, sem, progress, tally>>
    /\ UNCHANGED <<envVars, crawlVars, fs, touched>>

\* KeyboardInterrupt: main() ends the process with os._exit(130), whatever
\* the tasks were doing
Interrupt ==
    /\ status = "running"
    /\ status' = "exit130"
    /\ phase' = "done"
    /\ ptask' = CancelCrawl
    /\ pc' = CancelTasks
    /\ req' = [i \in DOMAIN req |-> NoHeaders]
    /\ rsp' = [i \in DOMAIN rsp |-> NoValidators]
    /\ UNCHANGED <<pprefix, pkids, listing, fetchCount, allFiles, fileCounter>>
    /\ UNCHANGED <<total, sem, progress, tally>>
    /\ UNCHANGED <<envVars, fs, touched>>

\* every file of the remote tree was downloaded by the run that has ended,
\* and its sidecar holds a validator
RunWasGood ==
    /\ status = "exit0"
    /\ total = Cardinality(FileNodes)
    /\ \A i \in DOMAIN pc :
          /\ pc[i] = "downloaded"
          /\ LET meta == ReadMetadata(fs, MetaFile(allFiles[i].path))
             IN  MetaGet(meta, "etag") # <<>> \/ MetaGet(meta, "last_modified") # <<>>

\* the program is started again on the same destination root, after a run
\* that ended with status 0
Restart ==
    /\ status = "exit0"
    /\ run < MaxRuns
    /\ run' = run + 1
    /\ prev' = [good |-> RunWasGood, fs |-> fs]
    /\ status' = "running"
    /\ phase' = "crawl"
    /\ ptask' = FreshPtask
    /\ pprefix' = FreshPrefix
    /\ pkids' = FreshKids
    /\ listing' = FreshListing
    /\ fetchCount' = FreshFetchCount
    /\ allFiles' = <<>>
    /\ fileCounter' = 0
    /\ total' = 0
    /\ pc' = <<>>
    /\ req' = <<>>
    /\ rsp' = <<>>
    /\ sem' = 0
    /\ progress' = 0
    /\ tally' = <<>>
    /\ touched' = <<>>
    /\ UNCHANGED <<ms, K, remote, fs>>

Next ==
    \/ \E d \in Dirs : StartFetch(d)
    \/ \E d \in Dirs : Connect(d)
    \/ \E d \in Dirs : ListingOk(d)
    \/ \E d \in Dirs : ListingFails(d)
    \/ \E d \in Dirs : ListingMalformed(d)
    \/ \E d \in Dirs : GatherDone(d)
    \/ \E d \in Dirs : GatherRaises(d)
    \/ CrawlReturns
    \/ CrawlRaises
    \/ \E i \in Tasks : Admit(i)
    \/ \E i \in Tasks : AdmitRaises(i)
    \/ \E i \in Tasks : Respond304(i)
    \/ \E i \in Tasks : RespondError(i)
    \/ \E i \in Tasks : Respond200(i)
    \/ \E i \in Tasks : ReadFails(i)
    \/ \E i \in Tasks : WriteTempPartial(i)
    \/ \E i \in Tasks : WriteTempFull(i)
    \/ \E i \in Tasks : Replace(i)
    \/ \E i \in Tasks : SaveTruncate(i)
    \/ \E i \in Tasks : SaveWrite(i)
    \/ \E i \in Tasks : LocalWriteFails(i)
    \/ GatherReturns
    \/ PipelineRaises
    \/ Interrupt
    \/ Restart

Spec == Init /\ [][Next]_vars

(***************************************************************************)
(* Claims about a run.                                                     *)
(***************************************************************************)
InFlight == {i \in DOMAIN pc : pc[i] \in InFlightStates}

\* C1: while the pipeline runs with limit K, at most K transfers have issued
\* their GET without having produced their outcome, and the free slots of the
\* gate are K minus that number: a file is admitted only into a free slot.
C1_ConcurrencyBound ==
    Downloading => /\ Cardinality(InFlight) <= K
                   /\ sem = K - Cardinality(InFlight)

\* K = 2, two transfers in flight and a third file waiting at the gate
C1_Witness ==
    /\ Downloading
    /\ K = 2
    /\ Cardinality(InFlight) = 2
    /\ \E i \in DOMAIN pc : pc[i] = "gate"

\* C2: when the pipeline has been handed the files and the process has ended
\* without an interrupt, every FileRef has exactly one outcome and the tally
\* adds up to total, whatever happened to the single files.
C2_EveryFileOneOutcome ==
    (phase = "done" /\ total > 0 /\ status \in {"exit0", "exit1"})
        => /\ \A i \in DOMAIN pc : pc[i] \in Outcomes
           /\ tally # <<>>
           /\ tally[1] + tally[2] + tally[3] = total

IsDot(name) == RStripSlash(name) \in {<<".">>, <<"..">>}

\* the file entries of a directory of the remote tree, "." and ".." aside
FileEntries(d) ==
    Cardinality({k \in DOMAIN remote[d] : ~remote[d][k].is_dir /\ ~IsDot(remote[d][k].name)})

\* the subdirectories of a directory of the remote tree, "." and ".." aside
DirEntries(d) ==
    {remote[d][k].url : k \in {x \in DOMAIN remote[d] :
                                  remote[d][x].is_dir /\ ~IsDot(remote[d][x].name)}}

RECURSIVE SumFileEntries(_)
SumFileEntries(S) ==
    IF S = {} THEN 0
    ELSE LET d == CHOOSE x \in S : TRUE
         IN  FileEntries(d) + SumFileEntries(S \ {d})

ListedOk == {d \in Dirs : listing[d] = "ok"}

\* C3: when the _process call of the base directory has returned, no
\* _process call is still running, the base directory and every entry of a
\* successfully listed directory has been fetched exactly once (and nothing
\* else has), and all_files holds as many FileRefs as the successfully listed
\* directories have file entries; once async_main has taken total from the
\* returned list, no call runs any more and the list keeps that length.
C3_CrawlComplete ==
    /\ (phase = "crawl" /\ ptask[BaseDir] = "returned")
          => /\ \A d \in Dirs : ptask[d] \in {"idle", "returned"}
             /\ \A d \in Dirs :
                   fetchCount[d] = IF d = BaseDir \/ (\E p \in ListedOk : d \in DirEntries(p))
                                   THEN 1 ELSE 0
             /\ \A d \in Dirs : fetchCount[d] = 1 => listing[d] \in {"ok", "failed"}
             /\ Len(allFiles) = SumFileEntries(ListedOk)
    /\ (\/ phase = "download"
        \/ phase = "done" /\ status \in {"exit0", "exit1"} /\ ptask[BaseDir] = "returned")
          => /\ \A d \in Dirs : ptask[d] \in {"idle", "returned"}
             /\ Len(allFiles) = total

\* the crawl is about to return after one listing failed and the others,
\* among them that of a sibling of the failed directory, were parsed
C3_Witness ==
    /\ phase = "crawl"
    /\ ptask[BaseDir] = "returned"
    /\ listing[1] = "ok"
    /\ listing[2] = "ok"
    /\ listing[3] = "failed"
    /\ Len(allFiles) = 3

\* C4: a directory whose listing failed in any way contributes no
\* subdirectory, and the crawl is not aborted: the _process call of the base
\* directory never raises.
C4_ListingFailureIsolated ==
    \A d \in Dirs :
        listing[d] \in {"failed", "raised"}
            => /\ pkids[d] = {}
               /\ ptask[BaseDir] # "raised"
               /\ status # "exit1"

\* C5: a process that ended without an interrupt ended with a non-zero
\* status if and only if some file's outcome is "failed".
C5_ExitStatusIffFailed ==
    status \in {"exit0", "exit1"}
        => ((status = "exit1") <=> (Count("failed") > 0))

DistinctPaths ==
    \A i, j \in DOMAIN allFiles : i # j => allFiles[i].path # allFiles[j].path

\* C6: a run that follows a run which downloaded every file and persisted a
\* validator for each, that found the same files under pairwise distinct
\* paths and met no fault, skips every file and leaves local storage as the
\* first run left it.
C6_SecondRunIdempotent ==
    (/\ run > 1
     /\ prev.good
     /\ status \in {"exit0", "exit1"}
     /\ total = Cardinality(FileNodes)
     /\ DistinctPaths
     /\ \A i \in DOMAIN pc : pc[i] \in {"downloaded", "skipped"})
        => /\ \A i \in DOMAIN pc : pc[i] = "skipped"
           /\ fs = prev.fs

\* C8: the destination of every FileRef, when it exists, holds the complete
\* body of a response for a FileRef of that path.
C8_DestinationsAtomic ==
    \A i \in DOMAIN allFiles :
        LET loc == LocalFile(allFiles[i].path)
        IN  loc \in DOMAIN fs
              => /\ fs[loc].kind = "data"
                 /\ fs[loc].complete
                 /\ \E j \in DOMAIN allFiles :
                       /\ allFiles[j].path = allFiles[i].path
                       /\ fs[loc].node = allFiles[j].url

LocalFilesOf(fp) == {LocalFile(fp), TempFile(fp), MetaFile(fp)}

\* C9: the files a download wrote, replaced or deleted are none of the
\* destination, temporary file and sidecar of a FileRef with another path.
C9_PathsPartitionStorage ==
    \A i, j \in DOMAIN touched :
        allFiles[i].path # allFiles[j].path
            => touched[i] \cap LocalFilesOf(allFiles[j].path) = {}

\* C10: every file a download wrote, replaced or deleted lies under the
\* destination root.
C10_WritesUnderRoot ==
    \A i \in DOMAIN touched : \A loc \in touched[i] : UnderRoot(loc)

(***************************************************************************)
(* The round trip of the metadata store, on its own: save_metadata and     *)
(* then read_metadata on the sidecar of one path, for every pair of        *)
(* validator values up to MaxLen tokens.                                   *)
(***************************************************************************)
Values == SeqsUpTo(ValChar, MaxLen)
HarnessPaths == {<<"a">>, <<"sub", "/", "b">>}

MetaInit ==
    /\ ms \in [pc : {"start"}, path : HarnessPaths, etag : Values,
               last_modified : Values, loaded : {EmptyMeta}]
    /\ K = 1
    /\ remote = Tree(<<"a">>, <<"c">>)
    /\ run = 1
    /\ status = "exit0"
    /\ phase = "done"
    /\ ptask = FreshPtask
    /\ pprefix = FreshPrefix
    /\ pkids = FreshKids
    /\ listing = FreshListing
    /\ fetchCount = FreshFetchCount
    /\ allFiles = <<>>
    /\ fileCounter = 0
    /\ total = 0
    /\ pc = <<>>
    /\ req = <<>>
    /\ rsp = <<>>
    /\ sem = 0
    /\ progress = 0
    /\ tally = <<>>
    /\ fs = [l \in {} |-> TextFile(<<>>)]
    /\ touched = <<>>
    /\ prev = [good |-> FALSE, fs |-> [l \in {} |-> TextFile(<<>>)]]

harnessFrame ==
    <<K, remote, run, prev, status, phase, touched, crawlVars, dlVars>>

\* save_metadata(meta_file, etag, last_modified)
MetaSave ==
    /\ ms.pc = "start"
    /\ fs' = SaveMetadata(fs, MetaFile(ms.path), ms.etag, ms.last_modified)
    /\ ms' = [ms EXCEPT !.pc = "saved"]
    /\ UNCHANGED harnessFrame

\* read_metadata(meta_file)
MetaLoad ==
    /\ ms.pc = "saved"
    /\ ms' = [ms EXCEPT !.pc = "loaded",
                        !.loaded = ReadMetadata(fs, MetaFile(ms.path))]
    /\ UNCHANGED <<fs, harnessFrame>>

MetaNext == MetaSave \/ MetaLoad

SpecMeta == MetaInit /\ [][MetaNext]_vars

(***************************************************************************)
(* Claims about the round trip.                                            *)
(***************************************************************************)
Present(meta, key, value) == <<key>> \in DOMAIN meta /\ meta[<<key>>] = value
Absent(meta, key) == <<key>> \notin DOMAIN meta

RoundTrips(meta, key, value) ==
    IF value = <<>> THEN Absent(meta, key) ELSE Present(meta, key, value)

\* a value the line format can hold: not the text "null", no line boundary
Storable(value) ==
    /\ value # <<"null">>
    /\ \A k \in DOMAIN value : value[k] \notin LineBreaks

\* C7, as stated: whatever the two validator values, load after save gives
\* each non-empty value back unchanged and each empty value back as absent.
C7_RoundTripAnyValue ==
    ms.pc = "loaded"
        => /\ RoundTrips(ms.loaded, "etag", ms.etag)
           /\ RoundTrips(ms.loaded, "last_modified", ms.last_modified)

\* C7, amended: the same for validator values that are not the text "null"
\* and hold no line boundary; the loaded record then has no other key.
C7_RoundTripStorable ==
    (ms.pc = "loaded" /\ Storable(ms.etag) /\ Storable(ms.last_modified))
        => /\ RoundTrips(ms.loaded, "etag", ms.etag)
           /\ RoundTrips(ms.loaded, "last_modified", ms.last_modified)
           /\ DOMAIN ms.loaded \subseteq {<<"etag">>, <<"last_modified">>}

\* an ETag that holds "=" was saved with an empty Last-Modified and loaded
C7_Witness ==
    /\ ms.pc = "loaded"
    /\ ms.etag = <<"v", "=", "v">>
    /\ ms.last_modified = <<>>
    /\ Present(ms.loaded, "etag", <<"v", "=", "v">>)
    /\ Absent(ms.loaded, "last_modified")

(***************************************************************************)
(* read_metadata on its own, for every state of the sidecar: missing, a    *)
(* text of up to MaxLen tokens, or something read_text cannot return as    *)
(* text (a directory in its place, bytes that are no UTF-8, a file the     *)
(* process may not read).                                                  *)
(***************************************************************************)
SidecarTokens == {"etag", "last_modified", "=", "NL", "v", "null"}
UnreadableKinds == {"dir", "bytes", "locked"}
Unreadable(kind) == [kind |-> kind, node |-> 0, complete |-> TRUE, text |-> <<>>]

\* path.exists() holds and path.read_text() raises (IsADirectoryError,
\* UnicodeDecodeError, PermissionError); read_metadata catches nothing
ReadTextRaises(f, loc) == loc \in DOMAIN f /\ f[loc].kind \in UnreadableKinds

SidecarStates ==
    {TextFile(t) : t \in SeqsUpTo(SidecarTokens, MaxLen)}
        \cup {Unreadable(k) : k \in UnreadableKinds}

LoadInit ==
    /\ ms \in [pc : {"start"}, path : HarnessPaths, etag : {<<>>},
               last_modified : {<<>>}, loaded : {EmptyMeta}]
    /\ \/ fs = [l \in {} |-> TextFile(<<>>)]
       \/ \E c \in SidecarStates : fs = [l \in {MetaFile(ms.path)} |-> c]
    /\ K = 1
    /\ remote = Tree(<<"a">>, <<"c">>)
    /\ run = 1
    /\ status = "exit0"
    /\ phase = "done"
    /\ ptask = FreshPtask
    /\ pprefix = FreshPrefix
    /\ pkids = FreshKids
    /\ listing = FreshListing
    /\ fetchCount = FreshFetchCount
    /\ allFiles = <<>>
    /\ fileCounter = 0
    /\ total = 0
    /\ pc = <<>>
    /\ req = <<>>
    /\ rsp = <<>>
    /\ sem = 0
    /\ progress = 0
    /\ tally = <<>>
    /\ touched = <<>>
    /\ prev = [good |-> FALSE, fs |-> [l \in {} |-> TextFile(<<>>)]]

\* meta = read_metadata(meta_file) returns
LoadReturns ==
    /\ ms.pc = "start"
    /\ ~ReadTextRaises(fs, MetaFile(ms.path))
    /\ ms' = [ms EXCEPT !.pc = "loaded",
                        !.loaded = ReadMetadata(fs, MetaFile(ms.path))]
    /\ UNCHANGED <<fs, harnessFrame>>

\* path.read_text() raises: the exception leaves read_metadata, and
\* download_file too, whose call stands before the try
LoadRaises ==
    /\ ms.pc = "start"
    /\ ReadTextRaises(fs, MetaFile(ms.path))
    /\ ms' = [ms EXCEPT !.pc = "raised"]
    /\ UNCHANGED <<fs, harnessFrame>>

LoadNext == LoadReturns \/ LoadRaises

SpecLoad == LoadInit /\ [][LoadNext]_vars

\* C11: whatever the sidecar is, read_metadata returns a record and never
\* raises; the record is empty when the sidecar is missing.
C11_LoadFailsSoft ==
    /\ ms.pc # "raised"
    /\ (ms.pc = "loaded" /\ MetaFile(ms.path) \notin DOMAIN fs) => ms.loaded = EmptyMeta

(***************************************************************************)
(* One run that nobody interrupts, under a scheduler that resumes every    *)
(* task that can go on and a session whose requests all end (a response,   *)
(* an error or the timeout of ClientTimeout).  max_concurrent is           *)
(* int(PARALLEL_JOBS), whatever number that is: 0 is one of them.          *)
(***************************************************************************)
\* what an earlier run left when it mirrored the file "a" of the base directory
MirrorOfA ==
    WriteFile(SaveMetadata([l \in {} |-> TextFile(<<>>)], MetaFile(<<"a">>),
                           ServerValidators(11).etag, ServerValidators(11).last_modified),
              LocalFile(<<"a">>), DataFile(11, TRUE))

LiveInit ==
    /\ ms = MsIdle
    /\ K \in 0..MaxK
    /\ remote \in Trees
    /\ run = 1
    /\ status = "running"
    /\ phase = "crawl"
    /\ ptask = FreshPtask
    /\ pprefix = FreshPrefix
    /\ pkids = FreshKids
    /\ listing = FreshListing
    /\ fetchCount = FreshFetchCount
    /\ allFiles = <<>>
    /\ fileCounter = 0
    /\ total = 0
    /\ pc = <<>>
    /\ req = <<>>
    /\ rsp = <<>>
    /\ sem = 0
    /\ progress = 0
    /\ tally = <<>>
    /\ fs \in {[l \in {} |-> TextFile(<<>>)], MirrorOfA}
    /\ touched = <<>>
    /\ prev = [good |-> FALSE, fs |-> [l \in {} |-> TextFile(<<>>)]]

LiveNext ==
    \/ \E d \in Dirs : StartFetch(d)
    \/ \E d \in Dirs : Connect(d)
    \/ \E d \in Dirs : ListingOk(d)
    \/ \E d \in Dirs : ListingFails(d)
    \/ \E d \in Dirs : ListingMalformed(d)
    \/ \E d \in Dirs : GatherDone(d)
    \/ \E d \in Dirs : GatherRaises(d)
    \/ CrawlReturns
    \/ CrawlRaises
    \/ \E i \in Tasks : Admit(i)
    \/ \E i \in Tasks : AdmitRaises(i)
    \/ \E i \in Tasks : Respond304(i)
    \/ \E i \in Tasks : RespondError(i)
    \/ \E i \in Tasks : Respond200(i)
    \/ \E i \in Tasks : ReadFails(i)
    \/ \E i \in Tasks : WriteTempPartial(i)
    \/ \E i \in Tasks : WriteTempFull(i)
    \/ \E i \in Tasks : Replace(i)
    \/ \E i \in Tasks : SaveTruncate(i)
    \/ \E i \in Tasks : SaveWrite(i)
    \/ \E i \in Tasks : LocalWriteFails(i)
    \/ GatherReturns
    \/ PipelineRaises

SpecLive == LiveInit /\ [][LiveNext]_vars /\ WF_vars(LiveNext)

\* C12: every run that is not interrupted eventually ends, with the tally of
\* downloaded, skipped and failed files printed or, when the crawl found no
\* file, with the report of that and status 0.
C12_RunCompletes ==
    <>(phase = "done" /\ (tally # <<>> \/ (status = "exit0" /\ total = 0)))

(***************************************************************************)
(* Claims about the fan-out of the crawl.                                  *)
(***************************************************************************)
\* the _process calls whose listing request is issued and not yet answered
Requesting == {d \in Dirs : ptask[d] \in {"fetching", "receiving"}}

MirroredFiles ==
    {LocalFile(allFiles[j].path) : j \in DOMAIN allFiles}
        \cup {MetaFile(allFiles[j].path) : j \in DOMAIN allFiles}

\* local storage is the same at loc before and after the step
SameAt(loc) ==
    (loc \in DOMAIN fs <=> loc \in DOMAIN fs')
        /\ (loc \in DOMAIN fs => fs'[loc] = fs[loc])

\* C14: the step that handles a 304 gives the outcome "skipped", leaves no
\* file at the temporary path of the FileRef, and changes no destination and
\* no sidecar of any FileRef nor any other file but the one at that
\* temporary path.
C14_SkipChangesNothing ==
    [][\A i \in Tasks :
          Respond304(i)
              => /\ pc'[i] = "skipped"
                 /\ TempFile(allFiles[i].path) \notin DOMAIN fs'
                 /\ \A loc \in MirroredFiles : SameAt(loc)
                 /\ \A loc \in DOMAIN fs \cup DOMAIN fs' :
                       loc # TempFile(allFiles[i].path) => SameAt(loc)]_vars

\* C15: a download that ended "failed" has not written its sidecar: the
\* cache record of its path is what it was before the attempt.
C15_FailedLeavesRecord ==
    \A i \in DOMAIN pc :
        pc[i] = "failed" => MetaFile(allFiles[i].path) \notin touched[i]

\* the cache record of a path, as download_file reads it
RecordOf(fp) ==
    LET meta == ReadMetadata(fs, MetaFile(fp))
    IN  [etag |-> MetaGet(meta, "etag"), last_modified |-> MetaGet(meta, "last_modified")]

\* C16: when the FileRefs have pairwise distinct paths, a cache record that
\* holds a validator holds exactly the validators of the response whose
\* complete body is the content of the destination of that path.
C16_RecordMatchesDestination ==
    DistinctPaths
        => \A i \in DOMAIN allFiles :
              LET loc == LocalFile(allFiles[i].path)
              IN  RecordOf(allFiles[i].path) # NoValidators
                    => /\ loc \in DOMAIN fs
                       /\ fs[loc].kind = "data"
                       /\ fs[loc].complete
                       /\ RecordOf(allFiles[i].path) = ServerValidators(fs[loc].node)

\* no download of this run has written or deleted the file at loc
UntouchedByRun(loc) == \A j \in DOMAIN touched : loc \notin touched[j]

\* the sidecar of fp is what save_metadata wrote for a response with the
\* validators v
PersistedFrom(fp, v) ==
    /\ MetaFile(fp) \in DOMAIN fs
    /\ fs[MetaFile(fp)] = TextFile(SaveMetadataText(v.etag, v.last_modified))

\* C17: no request carries a conditional header with an empty value; and
\* when the sidecar of the path is what an earlier download persisted from a
\* response with validators v, the request carries If-None-Match exactly if
\* v.etag is not empty, with that value, and If-Modified-Since exactly if
\* v.last_modified is not empty, with that value.
C17_ConditionalHeaders ==
    \A i \in DOMAIN pc :
        pc[i] = "sent"
          => /\ DOMAIN req[i] \subseteq {"If-None-Match", "If-Modified-Since"}
             /\ \A h \in DOMAIN req[i] : req[i][h] # <<>>
             /\ \A n \in FileNodes :
                   (/\ UntouchedByRun(MetaFile(allFiles[i].path))
                    /\ PersistedFrom(allFiles[i].path, ServerValidators(n)))
                     => /\ ("If-None-Match" \in DOMAIN req[i]
                              <=> ServerValidators(n).etag # <<>>)
                        /\ ("If-Modified-Since" \in DOMAIN req[i]
                              <=> ServerValidators(n).last_modified # <<>>)
                        /\ HeaderGet(req[i], "If-None-Match") = ServerValidators(n).etag
                        /\ HeaderGet(req[i], "If-Modified-Since")
                              = ServerValidators(n).last_modified

\* the second run asks for the file whose response had no Last-Modified:
\* the request carries If-None-Match and no If-Modified-Since
C17_Witness ==
    /\ run = 2
    /\ \E i \in DOMAIN pc :
          /\ pc[i] = "sent"
          /\ allFiles[i].url = 12
          /\ UntouchedByRun(MetaFile(allFiles[i].path))
          /\ PersistedFrom(allFiles[i].path, ServerValidators(12))
          /\ DOMAIN req[i] = {"If-None-Match"}

(***************************************************************************)
(* Claims about the order of the stages.                                   *)
(***************************************************************************)
\* C18: while the crawl runs no download task exists; once download tasks
\* exist no _process call and no listing request is left, and the tasks are
\* those of the whole list the crawl returned; a run whose crawl found no
\* file ends with status 0 having created no download task and having
\* changed nothing in local storage.
C18_StrictlyPhased ==
    /\ phase = "crawl" => pc = <<>> /\ touched = <<>>
    /\ pc # <<>>
         => /\ \A d \in Dirs : ptask[d] \in {"idle", "returned"}
            /\ DOMAIN pc = DOMAIN allFiles
            /\ total = Len(allFiles)
    /\ (phase = "done" /\ status = "exit0" /\ total = 0)
         => /\ Len(allFiles) = 0
            /\ pc = <<>>
            /\ touched = <<>>
            /\ fs = prev.fs

\* a GET for a file is out after a crawl that visited every directory
C18_Witness ==
    /\ Downloading
    /\ \E i \in DOMAIN pc : pc[i] = "sent"
    /\ \A d \in Dirs : ptask[d] = "returned"
    /\ Len(allFiles) = 3

(***************************************************************************)
(* Claims about the progress counter.                                      *)
(***************************************************************************)
\* the download tasks that get their outcome in this step
Finishing ==
    {i \in DOMAIN pc \cap DOMAIN pc' : pc[i] \notin Outcomes /\ pc'[i] \in Outcomes}

\* C19: the progress counter is the number of files that have their
\* outcome, it never exceeds total and it equals total when the tally is
\* printed; every step that gives a file its outcome, of whatever kind, gives
\* one file its outcome and raises the counter by one (the n it reports), and
\* no other step of a run changes the counter.
C19_ProgressCountsOutcomes ==
    /\ [](/\ progress = Count("downloaded") + Count("skipped") + Count("failed")
          /\ progress <= total
          /\ tally # <<>> => progress = total)
    /\ [][/\ Finishing # {} => Cardinality(Finishing) = 1 /\ progress' = progress + 1
          /\ (Finishing = {} /\ run' = run) => progress' = progress]_vars

\* the tally of a run whose three files ended in the three kinds of outcome
C19_Witness ==
    /\ tally = <<1, 1, 1>>
    /\ progress = 3
    /\ total = 3

(***************************************************************************)
(* Claims about a path that is listed more than once.                      *)
(***************************************************************************)
\* the FileRefs that share their path with another FileRef
Duplicates ==
    {i \in DOMAIN allFiles : \E j \in DOMAIN allFiles : j # i /\ allFiles[j].path = allFiles[i].path}

\* C20: when every download of the run has its outcome, each occurrence of a
\* duplicated path has one; if one of them is "downloaded" the destination
\* of the path holds the complete body of one of the occurrences, and the
\* cache record of the path holds the validators of that same response.
C20_DuplicatesLastWriterWins ==
    (pc # <<>> /\ \A i \in DOMAIN pc : pc[i] \in Outcomes)
        => \A i \in Duplicates :
              LET loc == LocalFile(allFiles[i].path)
              IN  pc[i] = "downloaded"
                    => /\ loc \in DOMAIN fs
                       /\ fs[loc].kind = "data"
                       /\ fs[loc].complete
                       /\ \E j \in Duplicates :
                             /\ allFiles[j].path = allFiles[i].path
                             /\ fs[loc].node = allFiles[j].url
                       /\ RecordOf(allFiles[i].path) = ServerValidators(fs[loc].node)

=============================================================================
